---- MODULE Spec2Model ----
(***************************************************************************)
(* A model of src/ollamatest.ts: the MCPStdioClient request client, the    *)
(* streaming tool-call detector of getStreamedResponse, and the main       *)
(* chat loop that couples them.                                            *)
(*                                                                         *)
(* Text is modelled as a sequence of one-character strings, so that the    *)
(* JavaScript string operations (includes, split, JSON.parse) are computed *)
(* character by character as the code computes them.                       *)
(***************************************************************************)
EXTENDS Integers, Sequences, FiniteSets, TLC

(***************************************************************************)
(* Bounds of the model.                                                    *)
(***************************************************************************)
\* Requests sent through sendMessage during one run.
MaxReq == 3
\* User input lines read during one run of the agent.
MaxLines == 2
\* Model invocations (ollama.chat calls) made for one input line.
MaxInv == 2
\* Inbound messages without a matching outstanding request (notifications,
\* stale responses) the peer emits during one run.
MaxStray == 1

(***************************************************************************)
(* String literals of the source, as character sequences.                  *)
(***************************************************************************)
\* The grave accent character of the fences: a TLA+ string literal cannot
\* hold it, so it is the one character written as a named atom.
Backtick == "BACKTICK"
OpenFence == <<Backtick, Backtick, Backtick, "j", "s", "o", "n", "\n">>
OpenFenceNoNl == <<Backtick, Backtick, Backtick, "j", "s", "o", "n">>
CloseFence == <<Backtick, Backtick, Backtick>>
PCall == <<"{", "\"", "n", "a", "m", "e", "\"", ":", "\"", "x", "\"", ",", "\"", "a", "r", "g", "u", "m", "e", "n", "t", "s", "\"", ":", "{", "}", "}">>
PCallA == <<"{", "\"", "n", "a", "m", "e", "\"", ":", "\"", "y", "\"", ",", "\"", "a", "r", "g", "u", "m", "e", "n", "t", "s", "\"", ":", "{", "\"", "a", "\"", ":", "1", "}", "}">>
PNoArgs == <<"{", "\"", "n", "a", "m", "e", "\"", ":", "\"", "x", "\"", "}">>
PNoName == <<"{", "\"", "a", "r", "g", "u", "m", "e", "n", "t", "s", "\"", ":", "{", "}", "}">>
PBad == <<"{", "\"", "n", "a", "m", "e", "\"", ":">>
PNull == <<"n", "u", "l", "l">>
PEmptyName == <<"{", "\"", "n", "a", "m", "e", "\"", ":", "\"", "\"", ",", "\"", "a", "r", "g", "u", "m", "e", "n", "t", "s", "\"", ":", "{", "}", "}">>
KName == <<"n", "a", "m", "e">>
KArguments == <<"a", "r", "g", "u", "m", "e", "n", "t", "s">>
LitNull == <<"n", "u", "l", "l">>
LitTrue == <<"t", "r", "u", "e">>
LitFalse == <<"f", "a", "l", "s", "e">>
LitTool == <<"T", "o", "o", "l", " ">>
LitOutput == <<" ", "o", "u", "t", "p", "u", "t", ":", "\n">>
LitError == <<" ", "e", "r", "r", "o", "r", ":", " ">>
LitObject == <<"[", "o", "b", "j", "e", "c", "t", " ", "O", "b", "j", "e", "c", "t", "]">>

(***************************************************************************)
(* JavaScript string operations.                                           *)
(***************************************************************************)
\* s.startsWith(sub, i - 1): sub occurs in s at (1-based) position i.
MatchAt(s, sub, i) ==
    /\ i >= 1
    /\ i + Len(sub) - 1 <= Len(s)
    /\ \A k \in 1..Len(sub) : s[i + k - 1] = sub[k]

\* s.indexOf(sub, from - 1) + 1: the first position >= from where sub
\* occurs in s, 0 when there is none.
RECURSIVE IndexOf(_, _, _)
IndexOf(s, sub, from) ==
    IF from + Len(sub) - 1 > Len(s) THEN 0
    ELSE IF MatchAt(s, sub, from) THEN from
    ELSE IndexOf(s, sub, from + 1)

\* s.includes(sub)
Includes(s, sub) == IndexOf(s, sub, 1) # 0

\* s.split(sep) for a non-empty separator: the pieces between successive
\* occurrences of sep, scanning left to right.
RECURSIVE SplitFrom(_, _, _)
SplitFrom(s, sep, from) ==
    LET i == IndexOf(s, sep, from)
    IN  IF i = 0
        THEN <<SubSeq(s, from, Len(s))>>
        ELSE <<SubSeq(s, from, i - 1)>> \o SplitFrom(s, sep, i + Len(sep))

Split(s, sep) == SplitFrom(s, sep, 1)

\* The characters String.prototype.trim removes (those the model's texts use).
WhiteSpace == {" ", "\n", "\t", "\r"}

\* s.trim() is the empty string
TrimIsEmpty(s) == \A i \in 1..Len(s) : s[i] \in WhiteSpace

\* parts.join(sep) for a sequence of texts
RECURSIVE Join(_, _)
Join(parts, sep) ==
    IF Len(parts) = 0 THEN <<>>
    ELSE IF Len(parts) = 1 THEN parts[1]
    ELSE parts[1] \o sep \o Join(Tail(parts), sep)

(***************************************************************************)
(* JSON.parse, for the JSON the model's texts use: objects, strings        *)
(* without escapes, integers, null, true, false, and white space between   *)
(* tokens.  A parsed value is a record [t, s, m]: its type, the text of a   *)
(* scalar (a string's includes its quotes) and, for an object, its members *)
(* [k, v] in source order, k being the key without its quotes.             *)
(***************************************************************************)
Digits == {"0", "1", "2", "3", "4", "5", "6", "7", "8", "9"}

JSValue(t, s, m) == [t |-> t, s |-> s, m |-> m]

\* The value of reading a property that is not there.
Undefined == JSValue("undefined", <<>>, <<>>)

ParseFail == [ok |-> FALSE, next |-> 0, val |-> Undefined]

ParseOk(next, val) == [ok |-> TRUE, next |-> next, val |-> val]

\* The first position >= i of s that holds no white space (Len(s) + 1 at
\* the end of s).
RECURSIVE SkipWs(_, _)
SkipWs(s, i) ==
    IF i <= Len(s) /\ s[i] \in WhiteSpace THEN SkipWs(s, i + 1) ELSE i

\* A string starting at the quote s[i]: up to the next quote; a control
\* character or a backslash inside is a syntax error.
ParseString(s, i) ==
    LET j == IndexOf(s, <<"\"">>, i + 1)
    IN  IF j = 0 \/ \E k \in (i + 1)..(j - 1) : s[k] \in {"\n", "\t", "\r", "\\"}
        THEN ParseFail
        ELSE ParseOk(j + 1, JSValue("str", SubSeq(s, i, j), <<>>))

\* The characters of a parsed string, without the quotes.
StringChars(value) == SubSeq(value.s, 2, Len(value.s) - 1)

\* The end (exclusive) of the run of digits that starts at i.
RECURSIVE DigitsEnd(_, _)
DigitsEnd(s, i) ==
    IF i <= Len(s) /\ s[i] \in Digits THEN DigitsEnd(s, i + 1) ELSE i

\* An integer: an optional minus sign, then 0 or a run of digits that does
\* not start with 0.
ParseNumber(s, i) ==
    LET d == IF s[i] = "-" THEN i + 1 ELSE i
        e == DigitsEnd(s, d)
    IN  IF e = d \/ (s[d] = "0" /\ e > d + 1)
        THEN ParseFail
        ELSE ParseOk(e, JSValue("num", SubSeq(s, i, e - 1), <<>>))

ParseLiteral(s, i, lit, t) ==
    IF MatchAt(s, lit, i)
    THEN ParseOk(i + Len(lit), JSValue(t, lit, <<>>))
    ELSE ParseFail

RECURSIVE ParseValue(_, _)
RECURSIVE ParseMembers(_, _, _)

\* The members of an object from position i (a key is expected there), mem
\* being the members read so far.
ParseMembers(s, i, mem) ==
    LET k == SkipWs(s, i)
    IN  IF k > Len(s) \/ s[k] # "\"" THEN ParseFail
        ELSE
        LET key == ParseString(s, k)
        IN  IF ~key.ok THEN ParseFail
            ELSE
            LET c == SkipWs(s, key.next)
            IN  IF c > Len(s) \/ s[c] # ":" THEN ParseFail
                ELSE
                LET v == ParseValue(s, SkipWs(s, c + 1))
                IN  IF ~v.ok THEN ParseFail
                    ELSE
                    LET e   == SkipWs(s, v.next)
                        all == Append(mem, [k |-> StringChars(key.val), v |-> v.val])
                    IN  IF e > Len(s) THEN ParseFail
                        ELSE IF s[e] = "," THEN ParseMembers(s, e + 1, all)
                        ELSE IF s[e] = "}"
                        THEN ParseOk(e + 1, JSValue("obj", <<>>, all))
                        ELSE ParseFail

ParseValue(s, i) ==
    IF i > Len(s) THEN ParseFail
    ELSE IF s[i] = "{" THEN
        LET j == SkipWs(s, i + 1)
        IN  IF j <= Len(s) /\ s[j] = "}"
            THEN ParseOk(j + 1, JSValue("obj", <<>>, <<>>))
            ELSE ParseMembers(s, i + 1, <<>>)
    ELSE IF s[i] = "\"" THEN ParseString(s, i)
    ELSE IF s[i] \in Digits \cup {"-"} THEN ParseNumber(s, i)
    ELSE IF s[i] = "n" THEN ParseLiteral(s, i, LitNull, "null")
    ELSE IF s[i] = "t" THEN ParseLiteral(s, i, LitTrue, "true")
    ELSE IF s[i] = "f" THEN ParseLiteral(s, i, LitFalse, "false")
    ELSE ParseFail

\* JSON.parse(s): ok is FALSE where JSON.parse throws a SyntaxError.
JSONParse(s) ==
    LET r == ParseValue(s, SkipWs(s, 1))
    IN  IF r.ok /\ SkipWs(s, r.next) = Len(s) + 1 THEN r ELSE ParseFail

\* value[key] for a parsed value that is not null: the last member with
\* that key of an object, undefined otherwise.
GetProperty(value, key) ==
    LET hits == {i \in 1..Len(value.m) : value.m[i].k = key}
    IN  IF value.t # "obj" \/ hits = {} THEN Undefined
        ELSE value.m[CHOOSE i \in hits : \A j \in hits : j <= i].v

\* JavaScript truthiness of a parsed value.
Truthy(value) ==
    CASE value.t = "obj" -> TRUE
      [] value.t = "true" -> TRUE
      [] value.t = "str" -> value.s # <<"\"", "\"">>
      [] value.t = "num" -> value.s \notin {<<"0">>, <<"-", "0">>}
      [] OTHER -> FALSE

(***************************************************************************)
(* The tool-call scan made after every token (lines 158-166).              *)
(***************************************************************************)
ScanResult(kind, name, arguments) ==
    [kind |-> kind, name |-> name, arguments |-> arguments]

\* The shape check written with only the name field tested.
LooksLikeToolCallNameOnly(jsonContent) ==
    Truthy(GetProperty(jsonContent, KName))

\* Line 166: both fields are read and tested for truthiness.
LooksLikeToolCall(jsonContent) ==
    /\ Truthy(GetProperty(jsonContent, KName))
    /\ Truthy(GetProperty(jsonContent, KArguments))

\* Lines 164-166 and the catch of line 190: JSON.parse throws on a syntax
\* error, and reading a property of null throws a TypeError; both land in
\* the same catch.
ParseBlock(block) ==
    LET parsed == JSONParse(block)
    IN  IF ~parsed.ok \/ parsed.val.t = "null"
        THEN ScanResult("parse_error", Undefined, Undefined)
        ELSE IF LooksLikeToolCall(parsed.val)
        THEN ScanResult("call", GetProperty(parsed.val, KName),
                        GetProperty(parsed.val, KArguments))
        ELSE ScanResult("not_call", Undefined, Undefined)

\* The scan written with the opening fence split without its line break.
ScanForToolCallNoNewline(fullContent) ==
    IF ~(Includes(fullContent, OpenFenceNoNl) /\ Includes(fullContent, CloseFence))
    THEN ScanResult("none", Undefined, Undefined)
    ELSE
    LET parts == Split(fullContent, OpenFenceNoNl)
    IN  IF ~(Len(parts) > 1)
        THEN ScanResult("none", Undefined, Undefined)
        ELSE
        LET jsonParts == Split(parts[2], CloseFence)
        IN  IF ~(Len(jsonParts) > 1)
            THEN ScanResult("none", Undefined, Undefined)
            ELSE ParseBlock(jsonParts[1])

\* Lines 158-162: the text between the first opening fence and the first
\* closing fence after it, when both are there.
ScanForToolCall(fullContent) ==
    IF ~(Includes(fullContent, OpenFenceNoNl) /\ Includes(fullContent, CloseFence))
    THEN ScanResult("none", Undefined, Undefined)
    ELSE
    LET parts == Split(fullContent, OpenFence)
    IN  IF ~(Len(parts) > 1)
        THEN ScanResult("none", Undefined, Undefined)
        ELSE
        LET jsonParts == Split(parts[2], CloseFence)
        IN  IF ~(Len(jsonParts) > 1)
            THEN ScanResult("none", Undefined, Undefined)
            ELSE ParseBlock(jsonParts[1])

(***************************************************************************)
(* State.                                                                  *)
(***************************************************************************)
VARIABLES
    process,      \* the child process: "running", "exited", "spawn_failed"
    killSent,     \* stop() has sent SIGTERM to the child process
    transport,    \* "created", "started" or "failed" (start() threw)
    onmessage,    \* transport.onmessage: the request whose closure is
                  \* installed (an index of requests), 0 when unset
    onerror,      \* transport.onerror, likewise
    requests,     \* the promises sendMessage returned, in order: the message
                  \* sent, the promise's state and what settled it
    peerInbox,    \* the requests the child process has read and not answered
    stray,        \* inbound messages emitted that answer no request
    atStop,       \* the requests that were outstanding when stop() was called
    atExit,       \* the requests that were outstanding when the child exited
    main,         \* main(): "new", "listing", "ready", "failed"
    closed,       \* readline has emitted "close"
    pc,           \* per input line: "unused", "chat", "stream", "await_tool",
                  \* "done"
    text,         \* per input line: the whole text of the current token
                  \* stream
    stream,       \* per input line: the part of text not yet delivered
    fullContent,  \* per input line: the accumulator of line 140
    awaiting,     \* per input line: the request its callTool awaits
    inv,          \* per input line: model invocations started
    calls,        \* per input line: callTool calls of the current invocation
    chatHistory,  \* the conversation turns
    returned,     \* per input line: finalContent of line 203
    messages,     \* per input line: the history its last ollama.chat call
                  \* was given (line 145)
    list,         \* the tools array of the server's tools/list result
    tools         \* the tools constant of line 128: whether it is set, and
                  \* the schemas getOllamaCompatibleTools returned

clientVars == <<process, killSent, transport, onmessage, onerror, requests,
                peerInbox, stray, atStop, atExit>>
agentVars == <<main, closed, pc, text, stream, fullContent, awaiting, inv, calls,
               chatHistory, returned, messages, list, tools>>
vars == <<process, killSent, transport, onmessage, onerror, requests,
          peerInbox, stray, atStop, atExit, main, closed, pc, text, stream, fullContent, awaiting,
          inv, calls, chatHistory, returned, messages, list, tools>>

(***************************************************************************)
(* Messages and promises.                                                  *)
(***************************************************************************)
\* The correlation ids the source hard-codes.
ListToolsId == 1
CallToolId == 2

\* An inbound message that carries no id (a notification).
NoId == 0

Result(kind, isError, content) ==
    [kind |-> kind, isError |-> isError, content |-> content]

\* response.result of a message that has none.
UndefinedResult == Result("undefined", FALSE, <<>>)

\* The result of tools/list: an object with a tools array.
ListResult == Result("list", FALSE, <<>>)

\* The results of tools/call: {isError, content: [{text}, ...]}.
ToolResults ==
    { Result("tool", FALSE, <<<<"o", "k">>>>),
      Result("tool", FALSE, <<<<"o", "k">>, <<"b">>>>),
      Result("tool", TRUE, <<<<"n", "o">>>>) }

\* An inbound message: its id, whether it carries an error object, its
\* result, and the request the peer wrote it in answer to (0: none).
Message(id, error, result, re) ==
    [id |-> id, error |-> error, result |-> result, re |-> re]

\* Stands for "no message" in a promise that no inbound message settled.
NoMessage == Message(-1, FALSE, UndefinedResult, 0)

\* Lines 65-70 and 74-82: the two request messages.
ListToolsMessage ==
    [id |-> ListToolsId, method |-> "tools/list", name |-> Undefined,
     arguments |-> Undefined]

CallToolMessage(name, args) ==
    [id |-> CallToolId, method |-> "tools/call", name |-> name,
     arguments |-> args]

\* A promise of sendMessage: state is "pending", "resolved" or "rejected";
\* value is the result it resolved with; error is why it was rejected
\* ("remote": line 54, "transport": line 59, "send": line 60); by is the
\* inbound message that settled it.
Promise(message, state, value, error, by) ==
    [message |-> message, state |-> state, value |-> value, error |-> error,
     by |-> by]

Pending(r) == requests[r].state = "pending"

Outstanding == {r \in 1..Len(requests) : Pending(r)}

\* reject(...) of a promise: a settled promise stays as it is.
Reject(reqs, r, error, by) ==
    IF r = 0 \/ reqs[r].state # "pending" THEN reqs
    ELSE [reqs EXCEPT ![r] =
            Promise(@.message, "rejected", UndefinedResult, error, by)]

\* resolve(...) of a promise: a settled promise stays as it is.
Resolve(reqs, r, value, by) ==
    IF r = 0 \/ reqs[r].state # "pending" THEN reqs
    ELSE [reqs EXCEPT ![r] = Promise(@.message, "resolved", value, "", by)]

\* Lines 52-58: the closure installed as transport.onmessage by the
\* sendMessage call of request r, applied to an inbound message.
OnMessageClosure(reqs, r, response) ==
    IF response.error
    THEN Reject(reqs, r, "remote", response)
    ELSE Resolve(reqs, r, response.result, response)

\* Line 59: the closure installed as transport.onerror by request r.
OnErrorClosure(reqs, r) == Reject(reqs, r, "transport", NoMessage)

\* What transport.send does with a message: the child reads it ("written"),
\* or, its input stream being closed, the write fails ("rejected") or the
\* message is dropped without an error ("lost").
SendOutcomes ==
    IF process = "running" THEN {"written"} ELSE {"rejected", "lost"}

\* Lines 50-62, sendMessage: a new promise, both callbacks of the transport
\* replaced by this request's closures, then the message written.
SendMessage(message, outcome) ==
    LET r   == Len(requests) + 1
        new == Append(requests,
                      Promise(message, "pending", UndefinedResult, "", NoMessage))
    IN  /\ requests' = IF outcome = "rejected"
                       THEN Reject(new, r, "send", NoMessage)
                       ELSE new
        /\ onmessage' = r
        /\ onerror' = r
        /\ peerInbox' = IF outcome = "written" THEN peerInbox \cup {r}
                        ELSE peerInbox

(***************************************************************************)
(* The child process and the transport's inbound side.                     *)
(***************************************************************************)
\* The transport hands an inbound message to the one callback installed.
Deliver(response) == OnMessageClosure(requests, onmessage, response)

\* What the peer may answer to request r: an error response, or a result
\* of the shape of the request's method.
Answers(r) ==
    LET id == requests[r].message.id
    IN  {Message(id, TRUE, UndefinedResult, r)} \cup
        IF requests[r].message.method = "tools/list"
        THEN {Message(id, FALSE, ListResult, r)}
        ELSE {Message(id, FALSE, res, r) : res \in ToolResults}

\* The child process answers one of the requests it has read, in any order.
PeerRespond(r) ==
    /\ process = "running"
    /\ transport = "started"
    /\ r \in peerInbox
    /\ \E response \in Answers(r) : requests' = Deliver(response)
    /\ peerInbox' = peerInbox \ {r}
    /\ UNCHANGED <<process, killSent, transport, onmessage, onerror, stray,
                   atStop, atExit>>
    /\ UNCHANGED agentVars

\* Inbound messages that answer no outstanding request: a notification (no
\* id) or a repeated response to the tools/list request.
StrayMessages ==
    {Message(NoId, FALSE, UndefinedResult, 0),
     Message(ListToolsId, FALSE, ListResult, 0)}

PeerStray ==
    /\ process = "running"
    /\ transport = "started"
    /\ stray < MaxStray
    /\ stray' = stray + 1
    /\ \E response \in StrayMessages : requests' = Deliver(response)
    /\ UNCHANGED <<process, killSent, transport, onmessage, onerror, peerInbox,
                   atStop, atExit>>
    /\ UNCHANGED agentVars

\* The transport reports an error (a stream error, an unparsable inbound
\* line) to the one error callback installed.
TransportError ==
    /\ transport = "started"
    /\ onerror # 0
    /\ Pending(onerror)
    /\ requests' = OnErrorClosure(requests, onerror)
    /\ UNCHANGED <<process, killSent, transport, onmessage, onerror, peerInbox,
                   stray, atStop, atExit>>
    /\ UNCHANGED agentVars

\* Lines 36-38: the child process exits; the listener logs the exit code.
ProcessExit ==
    /\ process = "running"
    /\ process' = "exited"
    /\ atExit' = Outstanding
    /\ UNCHANGED <<killSent, transport, onmessage, onerror, requests,
                   peerInbox, stray, atStop>>
    /\ UNCHANGED agentVars

\* Lines 85-88, stop(): SIGTERM to the child process, and a log line.
StopEffect ==
    /\ killSent' = TRUE
    /\ atStop' = IF killSent THEN atStop ELSE Outstanding

(***************************************************************************)
(* getOllamaCompatibleTools (lines 90-121).                                *)
(***************************************************************************)
\* Most tools in the server's list, and most declared parameters of a tool.
MaxTools == 2
MaxParams == 2

\* JavaScript values of the tool list: strings, objects, arrays.
Str(chars) == JSValue("str", <<"\"">> \o chars \o <<"\"">>, <<>>)
Member(k, v) == [k |-> k, v |-> v]
Obj(members) == JSValue("obj", <<>>, members)
IndexKeys == <<"0", "1", "2", "3">>
Array(items) ==
    Obj([i \in 1..Len(items) |-> Member(<<IndexKeys[i]>>, items[i])])

\* The property names the function reads and writes.
KType == <<"t", "y", "p", "e">>
KDescription == <<"d", "e", "s", "c", "r", "i", "p", "t", "i", "o", "n">>
KEnum == <<"e", "n", "u", "m">>
KInputSchema == <<"i", "n", "p", "u", "t", "S", "c", "h", "e", "m", "a">>
KProperties == <<"p", "r", "o", "p", "e", "r", "t", "i", "e", "s">>
KRequired == <<"r", "e", "q", "u", "i", "r", "e", "d">>
KFunction == <<"f", "u", "n", "c", "t", "i", "o", "n">>
KParameters == <<"p", "a", "r", "a", "m", "e", "t", "e", "r", "s">>
LitString == <<"s", "t", "r", "i", "n", "g">>
LitNumber == <<"n", "u", "m", "b", "e", "r">>

\* The conversion written with each parameter copied whole.
ConvertedPropertiesWhole(properties) ==
    [i \in 1..Len(properties.m) |->
        Member(properties.m[i].k, properties.m[i].v)]

\* Lines 102-107: Object.entries(properties), each entry rewritten to its
\* type and its description (or undefined when that is falsy).
ConvertedProperties(properties) ==
    [i \in 1..Len(properties.m) |->
        LET key  == properties.m[i].k
            prop == properties.m[i].v
        IN  Member(key,
                   Obj(<<Member(KType, GetProperty(prop, KType)),
                         Member(KDescription,
                                IF Truthy(GetProperty(prop, KDescription))
                                THEN GetProperty(prop, KDescription)
                                ELSE Undefined)>>))]

\* Lines 94-98 and 101: the parameters object of one tool.
Parameters(tool) ==
    LET inputSchema == GetProperty(tool, KInputSchema)
        required    == GetProperty(inputSchema, KRequired)
        properties  == GetProperty(inputSchema, KProperties)
    IN  Obj(<<Member(KType, Str(<<"o", "b", "j", "e", "c", "t">>)),
              Member(KProperties,
                     IF Truthy(properties)
                     THEN Obj(ConvertedProperties(properties))
                     ELSE Obj(<<>>)),
              Member(KRequired,
                     IF Truthy(required) THEN required ELSE Array(<<>>))>>)

\* Lines 110-117: the function schema of one tool.
FunctionSchema(tool) ==
    Obj(<<Member(KType, Str(KFunction)),
          Member(KFunction,
                 Obj(<<Member(KName, GetProperty(tool, KName)),
                       Member(KDescription, GetProperty(tool, KDescription)),
                       Member(KParameters, Parameters(tool))>>))>>)

\* Lines 92-120: list.tools.map(...)
GetOllamaCompatibleTools(toolList) ==
    [i \in 1..Len(toolList) |-> FunctionSchema(toolList[i])]

\* The declared parameters a tool of the server may have: a type, with or
\* without a description (possibly the empty string) and an enum.
ParamProps ==
    { Obj(<<Member(KType, Str(LitString)), Member(KDescription, Str(<<"d">>)),
            Member(KEnum, Array(<<Str(<<"e">>)>>))>>),
      Obj(<<Member(KType, Str(LitNumber))>>),
      Obj(<<Member(KType, Str(LitString)), Member(KDescription, Str(<<>>))>>) }

ParamKeys == <<"a", "b", "c">>
ToolKeys == <<"x", "y", "z">>

\* The properties objects with at most MaxParams parameters.
PropertyObjects ==
    UNION {{Obj([i \in 1..n |-> Member(<<ParamKeys[i]>>, f[i])]) :
                f \in [1..n -> ParamProps]} : n \in 0..MaxParams}

\* The input schemas: properties and required are each optional.
InputSchemas ==
    {Obj(<<Member(KType, Str(<<"o", "b", "j", "e", "c", "t">>))>> \o p \o r) :
        p \in {<<>>} \cup {<<Member(KProperties, o)>> : o \in PropertyObjects},
        r \in {<<>>, <<Member(KRequired, Array(<<Str(<<"a">>)>>))>>}}

\* The i-th tool of a list, of the given input schema.
Tool(i, inputSchema) ==
    Obj(<<Member(KName, Str(<<ToolKeys[i]>>)),
          Member(KDescription, Str(<<"D", ToolKeys[i]>>)),
          Member(KInputSchema, inputSchema)>>)

\* The tool lists of at most MaxTools tools: the first tool of any input
\* schema, the tools after it of any other one.
ToolLists ==
    {[i \in 1..n |-> Tool(i, IF i = 1 THEN first ELSE rest)] :
        first \in InputSchemas, rest \in InputSchemas, n \in 0..MaxTools}

\* The tool list of the server in the specifications of the chat loop.
ServerTools ==
    <<Tool(1, Obj(<<Member(KType, Str(<<"o", "b", "j", "e", "c", "t">>)),
                    Member(KProperties,
                           Obj(<<Member(<<"a">>,
                                        Obj(<<Member(KType, Str(LitString))>>))>>)),
                    Member(KRequired, Array(<<Str(<<"a">>)>>))>>))>>

\* Lines 91-120: getOllamaCompatibleTools applied to the awaited list.
Adapt ==
    /\ ~tools.set
    /\ tools' = [set |-> TRUE, value |-> GetOllamaCompatibleTools(list)]
    /\ UNCHANGED clientVars
    /\ UNCHANGED <<main, closed, pc, text, stream, fullContent, awaiting, inv,
                   calls, chatHistory, returned, messages, list>>

(***************************************************************************)
(* The callers of the exported MCPStdioClient class (lines 41-88).         *)
(***************************************************************************)
\* Lines 41-48, start(): the transport starts, or start() throws.
ClientStart ==
    /\ transport = "created"
    /\ main = "new"
    /\ \E t \in {"started", "failed"} : transport' = t
    /\ UNCHANGED <<process, killSent, onmessage, onerror, requests, peerInbox,
                   stray, atStop, atExit>>
    /\ UNCHANGED agentVars

\* Lines 64-71, listTools(), called by any user of the class (one that
\* sends to a live child process it has not stopped).
ListTools ==
    /\ transport = "started"
    /\ main = "new"
    /\ process = "running"
    /\ ~killSent
    /\ Len(requests) < MaxReq
    /\ \E outcome \in SendOutcomes : SendMessage(ListToolsMessage, outcome)
    /\ UNCHANGED <<process, killSent, transport, stray, atStop, atExit>>
    /\ UNCHANGED agentVars

\* The tool calls the model's texts hold.
ToolNames == {JSValue("str", <<"\"", "x", "\"">>, <<>>)}
ToolArguments == {JSValue("obj", <<>>, <<>>)}

\* Lines 73-83, callTool(name, args), called by any user of the class (one
\* that sends to a live child process it has not stopped).
CallTool ==
    /\ transport = "started"
    /\ main = "new"
    /\ process = "running"
    /\ ~killSent
    /\ Len(requests) < MaxReq
    /\ \E name \in ToolNames, args \in ToolArguments, outcome \in SendOutcomes :
          SendMessage(CallToolMessage(name, args), outcome)
    /\ UNCHANGED <<process, killSent, transport, stray, atStop, atExit>>
    /\ UNCHANGED agentVars

\* Lines 85-88, stop(), called by any user of the class.
Stop ==
    /\ main = "new"
    /\ ~killSent
    /\ StopEffect
    /\ UNCHANGED <<process, transport, onmessage, onerror, requests, peerInbox,
                   stray, atExit>>
    /\ UNCHANGED agentVars

(***************************************************************************)
(* main(): startup (lines 122-137 and the catch of lines 213-216).         *)
(***************************************************************************)
\* Lines 126-128: mcp.start(), then getOllamaCompatibleTools sends
\* tools/list; a failed start is caught at line 213, which stops the child.
MainStart ==
    /\ main = "new"
    /\ transport = "created"
    /\ requests = <<>>
    /\ \/ /\ transport' = "started"
          /\ \E outcome \in SendOutcomes : SendMessage(ListToolsMessage, outcome)
          /\ main' = "listing"
          /\ UNCHANGED <<killSent, atStop>>
       \/ /\ transport' = "failed"
          /\ StopEffect
          /\ main' = "failed"
          /\ UNCHANGED <<onmessage, onerror, requests, peerInbox>>
    /\ UNCHANGED <<process, stray, atExit, closed, pc, stream, text,
                   fullContent, awaiting, inv, calls, chatHistory, returned>>
    /\ UNCHANGED <<messages, list, tools>>

\* Lines 91-92 and 129-136: the tools/list promise settles.  A result with
\* a tools array starts the chat loop; a rejection, or a result without one
\* (list.tools.map throws), is caught at line 213, which stops the child.
MainListed ==
    /\ main = "listing"
    /\ ~Pending(1)
    /\ IF requests[1].state = "resolved" /\ requests[1].value.kind = "list"
       THEN /\ tools' = [set |-> TRUE,
                          value |-> GetOllamaCompatibleTools(list)]
            /\ main' = "ready"
            /\ UNCHANGED <<killSent, atStop>>
       ELSE /\ main' = "failed"
            /\ StopEffect
            /\ UNCHANGED tools
    /\ UNCHANGED <<messages, list>>
    /\ UNCHANGED <<process, transport, onmessage, onerror, requests, peerInbox,
                   stray, atExit, closed, pc, stream, text, fullContent, awaiting, inv,
                   calls, chatHistory, returned>>

(***************************************************************************)
(* main(): the chat loop (lines 138-212).                                  *)
(***************************************************************************)
Lines == 1..MaxLines

Turn(role, content) == [role |-> role, content |-> content]

\* The input lines the user types.
Inputs == {<<"h", "i">>}

\* `${value}` for a parsed JSON value.
ToText(value) ==
    CASE value.t = "str" -> StringChars(value)
      [] value.t = "obj" -> LitObject
      [] OTHER -> value.s

\* Lines 138-140 and 203: readline emits "line"; the handler pushes the
\* user turn and calls getStreamedResponse, which awaits ollama.chat.
Line(h) ==
    /\ main = "ready"
    /\ ~closed
    /\ pc[h] = "unused"
    /\ \A g \in Lines : g < h => pc[g] # "unused"
    /\ \E input \in Inputs :
          chatHistory' = Append(chatHistory, Turn("user", input))
    /\ messages' = [messages EXCEPT ![h] = chatHistory']
    /\ pc' = [pc EXCEPT ![h] = "chat"]
    /\ UNCHANGED clientVars
    /\ UNCHANGED <<main, closed, stream, text, fullContent, awaiting, inv,
                   calls, returned>>
    /\ UNCHANGED <<list, tools>>

\* Lines 209-212: readline emits "close"; the handler stops the client.
Close ==
    /\ main = "ready"
    /\ ~closed
    /\ closed' = TRUE
    /\ StopEffect
    /\ UNCHANGED <<process, transport, onmessage, onerror, requests, peerInbox,
                   stray, atExit>>
    /\ UNCHANGED <<main, pc, stream, text, fullContent, awaiting, inv, calls,
                   chatHistory, returned>>
    /\ UNCHANGED <<messages, list, tools>>

\* Lines 143-151: ollama.chat answers with a token stream whose text is one
\* of texts; the accumulator is reset.
ChatResponds(h, texts) ==
    /\ pc[h] = "chat"
    /\ inv[h] < MaxInv
    /\ \E t \in texts :
          /\ text' = [text EXCEPT ![h] = t]
          /\ stream' = [stream EXCEPT ![h] = t]
    /\ fullContent' = [fullContent EXCEPT ![h] = <<>>]
    /\ inv' = [inv EXCEPT ![h] = @ + 1]
    /\ calls' = [calls EXCEPT ![h] = 0]
    /\ pc' = [pc EXCEPT ![h] = "stream"]
    /\ UNCHANGED clientVars
    /\ UNCHANGED <<main, closed, awaiting, chatHistory, returned>>
    /\ UNCHANGED <<messages, list, tools>>

\* Lines 153-169: the stream yields its next token, the first k characters
\* of what is left, for any k that makes a token of tokens; the token is
\* appended and the accumulator scanned; a block that looks like a tool
\* call is sent with callTool and awaited.
Token(h, tokens) ==
    /\ pc[h] = "stream"
    /\ \E k \in 1..Len(stream[h]) :
          LET content == SubSeq(stream[h], 1, k)
              acc     == fullContent[h] \o content
              scan    == ScanForToolCall(acc)
          IN  /\ content \in tokens
              /\ stream' = [stream EXCEPT ![h] = SubSeq(@, k + 1, Len(@))]
              /\ fullContent' = [fullContent EXCEPT ![h] = acc]
              /\ IF scan.kind = "call"
                 THEN /\ Len(requests) < MaxReq
                      /\ \E outcome \in SendOutcomes :
                            SendMessage(CallToolMessage(scan.name, scan.arguments),
                                        outcome)
                      /\ awaiting' = [awaiting EXCEPT ![h] = Len(requests) + 1]
                      /\ calls' = [calls EXCEPT ![h] = @ + 1]
                      /\ pc' = [pc EXCEPT ![h] = "await_tool"]
                 ELSE UNCHANGED <<onmessage, onerror, requests, peerInbox,
                                  awaiting, calls, pc>>
    /\ UNCHANGED <<process, killSent, transport, stray, atStop, atExit, main,
                   closed, text, inv, chatHistory, returned>>
    /\ UNCHANGED <<messages, list, tools>>

\* The tool-success turn written with the assistant's role and the content
\* items joined by a blank.
ToolOutputTurnAsAssistant(name, result) ==
    Turn("assistant", LitTool \o ToText(name) \o LitOutput
                      \o Join(result.content, <<" ">>))

\* Lines 171-177: the content of the turn pushed for a successful tool call.
ToolOutputTurn(name, result) ==
    Turn("user", LitTool \o ToText(name) \o LitOutput
                 \o Join(result.content, <<"\n">>))

\* The tool-error turn written without the text of the error.
ToolErrorTurnNoText(name, result) ==
    Turn("user", LitTool \o ToText(name) \o LitError)

\* Lines 180-185: the content of the turn pushed for a tool error.
ToolErrorTurn(name, result) ==
    Turn("user", LitTool \o ToText(name) \o LitError \o result.content[1])

\* Lines 169-192: the awaited callTool promise settles.  A result is pushed
\* as a turn and getStreamedResponse is called again (lines 178, 186).  A
\* rejection, or a result that is not a tool result (reading it throws), is
\* caught at line 190 and the token loop goes on.
ToolSettled(h) ==
    /\ pc[h] = "await_tool"
    /\ ~Pending(awaiting[h])
    /\ LET promise == requests[awaiting[h]]
           name    == promise.message.name
       IN  IF promise.state = "resolved" /\ promise.value.kind = "tool"
           THEN /\ chatHistory' = Append(chatHistory,
                       IF ~promise.value.isError
                       THEN ToolOutputTurn(name, promise.value)
                       ELSE ToolErrorTurn(name, promise.value))
                /\ messages' = [messages EXCEPT ![h] = chatHistory']
                /\ pc' = [pc EXCEPT ![h] = "chat"]
           ELSE /\ pc' = [pc EXCEPT ![h] = "stream"]
                /\ UNCHANGED <<chatHistory, messages>>
    /\ UNCHANGED clientVars
    /\ UNCHANGED <<main, closed, stream, text, fullContent, awaiting, inv,
                   calls, returned>>
    /\ UNCHANGED <<list, tools>>

\* The end of the stream written without the test of line 204.
StreamEndAlwaysPushes(h) ==
    /\ pc[h] = "stream"
    /\ stream[h] = <<>>
    /\ returned' = [returned EXCEPT ![h] = fullContent[h]]
    /\ chatHistory' = Append(chatHistory, Turn("assistant", fullContent[h]))
    /\ pc' = [pc EXCEPT ![h] = "done"]
    /\ UNCHANGED clientVars
    /\ UNCHANGED <<main, closed, stream, text, fullContent, awaiting, inv,
                   calls>>
    /\ UNCHANGED <<messages, list, tools>>

\* Lines 198-199 and 203-206: the stream ends; the accumulator is returned
\* and, unless blank, pushed as the assistant's turn.
StreamEnd(h) ==
    /\ pc[h] = "stream"
    /\ stream[h] = <<>>
    /\ returned' = [returned EXCEPT ![h] = fullContent[h]]
    /\ chatHistory' = IF ~TrimIsEmpty(fullContent[h])
                      THEN Append(chatHistory, Turn("assistant", fullContent[h]))
                      ELSE chatHistory
    /\ pc' = [pc EXCEPT ![h] = "done"]
    /\ UNCHANGED clientVars
    /\ UNCHANGED <<main, closed, stream, text, fullContent, awaiting, inv,
                   calls>>
    /\ UNCHANGED <<messages, list, tools>>

(***************************************************************************)
(* The texts the language model streams.                                   *)
(***************************************************************************)
TPlain == <<"h", "i">>
TBlank == <<" ", "\n">>
TTicks == <<"a">> \o CloseFence \o <<"b">> \o CloseFence
TNoNewline == OpenFenceNoNl \o PCall \o CloseFence
TUnclosed == OpenFence \o PCall \o <<Backtick, Backtick>>
TCall == OpenFence \o PCall \o CloseFence
TCallInText == <<"a">> \o OpenFence \o PCallA \o <<"\n">> \o CloseFence \o <<"b", "c">>
TBadThenCall == OpenFence \o PBad \o CloseFence \o OpenFence \o PCall \o CloseFence
TNoArgs == OpenFence \o PNoArgs \o CloseFence \o <<"z">>
TNoName == OpenFence \o PNoName \o CloseFence
TNoArgsThenCall == OpenFence \o PNoArgs \o CloseFence \o OpenFence \o PCall \o CloseFence
TNull == OpenFence \o PNull \o CloseFence
TEmptyName == OpenFence \o PEmptyName \o CloseFence

\* The texts of the detector's specification.
DetectorTexts ==
    {TPlain, TBlank, TTicks, TNoNewline, TUnclosed, TCall, TCallInText,
     TBadThenCall, TNoArgs, TNoName, TNoArgsThenCall, TNull, TEmptyName}

\* The characters of the texts.
Chars ==
    UNION {{t[i] : i \in 1..Len(t)} : t \in DetectorTexts} \cup {"!", "?"}

\* The detector's specification cuts a text into tokens at any places.
AnyToken == Seq(Chars)

\* The texts and the tokens of the specification with concurrent input
\* lines: a plain answer in one token, and a tool call in one token followed
\* by two more tokens.
AgentTexts == {TPlain, TCall \o <<"!", "?">>}
AgentTokens == {TPlain, TCall, <<"!">>, <<"?">>}

(***************************************************************************)
(* Specifications.                                                         *)
(***************************************************************************)
Init ==
    /\ process \in {"running", "spawn_failed"}
    /\ killSent = FALSE
    /\ transport = "created"
    /\ onmessage = 0
    /\ onerror = 0
    /\ requests = <<>>
    /\ peerInbox = {}
    /\ stray = 0
    /\ atStop = {}
    /\ atExit = {}
    /\ main = "new"
    /\ closed = FALSE
    /\ pc = [h \in Lines |-> "unused"]
    /\ text = [h \in Lines |-> <<>>]
    /\ stream = [h \in Lines |-> <<>>]
    /\ fullContent = [h \in Lines |-> <<>>]
    /\ awaiting = [h \in Lines |-> 0]
    /\ inv = [h \in Lines |-> 0]
    /\ calls = [h \in Lines |-> 0]
    /\ chatHistory = <<>>
    /\ returned = [h \in Lines |-> <<>>]
    /\ messages = [h \in Lines |-> <<>>]
    /\ list = ServerTools
    /\ tools = [set |-> FALSE, value |-> <<>>]

\* The child process and the transport, whatever drives the client.
Environment ==
    \/ \E r \in 1..MaxReq : PeerRespond(r)
    \/ PeerStray
    \/ TransportError
    \/ ProcessExit

\* The agent: main() with any number of input lines in progress.
Next ==
    \/ MainStart
    \/ MainListed
    \/ Close
    \/ \E h \in Lines : Line(h)
    \/ \E h \in Lines : ChatResponds(h, AgentTexts)
    \/ \E h \in Lines : Token(h, AgentTokens)
    \/ \E h \in Lines : ToolSettled(h)
    \/ \E h \in Lines : StreamEnd(h)
    \/ Environment

Spec == Init /\ [][Next]_vars

\* The agent with one input line, over all the texts of the detector cut
\* into tokens in every way, and a child process that answers each request
\* (with a result, a tool error or a protocol error) or stays silent.
DetectorNext ==
    \/ MainStart
    \/ MainListed
    \/ Line(1)
    \/ ChatResponds(1, DetectorTexts)
    \/ Token(1, AnyToken)
    \/ ToolSettled(1)
    \/ StreamEnd(1)
    \/ \E r \in 1..MaxReq : PeerRespond(r)

DetectorSpec == Init /\ [][DetectorNext]_vars

\* The exported client class driven by arbitrary callers.
ClientNext ==
    \/ ClientStart
    \/ ListTools
    \/ CallTool
    \/ Stop
    \/ Environment

ClientSpec == Init /\ [][ClientNext]_vars

\* ClientSpec with the most its environment can be relied on to do: the
\* child process answers the requests it has read, it exits once stop() has
\* signalled it, and the transport reports errors to the error callback
\* installed for as long as that callback's request is pending.
FairClientSpec ==
    /\ ClientSpec
    /\ WF_vars(\E r \in 1..MaxReq : PeerRespond(r))
    /\ WF_vars(killSent /\ ProcessExit)
    /\ WF_vars(TransportError)

\* getOllamaCompatibleTools on its own, over every tool list of the bounds.
AdapterInit ==
    /\ process = "running"
    /\ killSent = FALSE
    /\ transport = "created"
    /\ onmessage = 0
    /\ onerror = 0
    /\ requests = <<>>
    /\ peerInbox = {}
    /\ stray = 0
    /\ atStop = {}
    /\ atExit = {}
    /\ main = "new"
    /\ closed = FALSE
    /\ pc = [h \in Lines |-> "unused"]
    /\ text = [h \in Lines |-> <<>>]
    /\ stream = [h \in Lines |-> <<>>]
    /\ fullContent = [h \in Lines |-> <<>>]
    /\ awaiting = [h \in Lines |-> 0]
    /\ inv = [h \in Lines |-> 0]
    /\ calls = [h \in Lines |-> 0]
    /\ chatHistory = <<>>
    /\ returned = [h \in Lines |-> <<>>]
    /\ messages = [h \in Lines |-> <<>>]
    /\ list \in ToolLists
    /\ tools = [set |-> FALSE, value |-> <<>>]

AdapterNext == Adapt

AdapterSpec == AdapterInit /\ [][AdapterNext]_vars

\* main() from its start to the first input line, with the child process
\* and the transport doing whatever they may.
StartupNext ==
    \/ MainStart
    \/ MainListed
    \/ Line(1)
    \/ ChatResponds(1, {TPlain})
    \/ Token(1, {TPlain})
    \/ StreamEnd(1)
    \/ Close
    \/ Environment

StartupSpec == Init /\ [][StartupNext]_vars

\* StartupSpec with main() running on: each await of the startup resumes
\* once what it awaits has settled.  Nothing obliges the child process or
\* the transport to act.
FairStartupSpec ==
    /\ StartupSpec
    /\ WF_vars(MainStart)
    /\ WF_vars(MainListed)

(***************************************************************************)
(* Notions the claims are stated with.  They are defined from the texts    *)
(* alone, not from the scan of lines 158-166.                              *)
(***************************************************************************)
Sent == 1..Len(requests)

\* The positions of s where a fenced block starts: an opening fence that a
\* closing fence follows.
Blocks(s) ==
    {i \in 1..Len(s) : /\ MatchAt(s, OpenFence, i)
                       /\ IndexOf(s, CloseFence, i + Len(OpenFence)) # 0}

HasFencedBlock(s) == Blocks(s) # {}

\* The content of the fenced block that starts at position i of s.
BlockAt(s, i) ==
    SubSeq(s, i + Len(OpenFence),
           IndexOf(s, CloseFence, i + Len(OpenFence)) - 1)

HasMember(value, key) == \E n \in 1..Len(value.m) : value.m[n].k = key

\* The block is a JSON object {name, arguments}: a name that is a non-empty
\* string, and arguments that are an object.
IsToolCallPayload(block) ==
    LET p == JSONParse(block)
    IN  /\ p.ok
        /\ p.val.t = "obj"
        /\ HasMember(p.val, KName)
        /\ HasMember(p.val, KArguments)
        /\ GetProperty(p.val, KName).t = "str"
        /\ Len(StringChars(GetProperty(p.val, KName))) > 0
        /\ GetProperty(p.val, KArguments).t = "obj"

\* The block parses as JSON and has both fields, whatever they hold.
HasBothFields(block) ==
    LET p == JSONParse(block)
    IN  p.ok /\ HasMember(p.val, KName) /\ HasMember(p.val, KArguments)

\* The block parses as JSON and lacks the name or the arguments field.
LacksAField(block) ==
    LET p == JSONParse(block)
    IN  p.ok /\ ~(HasMember(p.val, KName) /\ HasMember(p.val, KArguments))

\* Input line h is inside a model invocation, or has finished its last one.
InInvocation(h) == pc[h] \in {"stream", "await_tool", "done"}

(***************************************************************************)
(* The request client (claims C1 to C5).                                   *)
(***************************************************************************)
\* C1: when the requests carry distinct correlation ids, a request that an
\* answer of the peer settles is settled by the answer to that very
\* request, never by the answer to another request, in whatever order the
\* answers arrive.
DemultiplexedByRequest ==
    (\A r1, r2 \in Sent :
        r1 # r2 => requests[r1].message.id # requests[r2].message.id)
    => \A r \in Sent : requests[r].by.re # 0 => requests[r].by.re = r

\* C2: a request is settled only by an inbound message that carries the
\* request's own id; a message with another id or with no id leaves it
\* pending.
SettledOnlyByOwnId ==
    \A r \in Sent :
        requests[r].by # NoMessage => requests[r].by.id = requests[r].message.id

\* C3: no two outstanding requests carry the same correlation id.
UniqueOutstandingIds ==
    \A r1, r2 \in Outstanding :
        r1 # r2 => requests[r1].message.id # requests[r2].message.id

\* C4: a request that is outstanding when stop() is called does not stay
\* pending for ever (the claim in its weakest reading: it asks for a
\* transport-failure error, and this formula accepts any settlement).
StopSettlesOutstanding ==
    \A r \in 1..MaxReq : (r \in atStop) ~> (r \in Sent /\ ~Pending(r))

\* C5: a request that is outstanding when the child process exits fails
\* with a transport error.
ExitFailsOutstanding ==
    \A r \in 1..MaxReq :
        (r \in atExit) ~> (/\ r \in Sent
                           /\ requests[r].state = "rejected"
                           /\ requests[r].error = "transport")

(***************************************************************************)
(* The streaming tool-call detector (claims C6 to C10).                    *)
(***************************************************************************)
\* C6: in an invocation whose text holds no fenced block, however the text
\* is cut into tokens, no tool has been called and none is awaited, every
\* token delivered is in the accumulator, the end of the stream ends the
\* invocation, and what it returns in DONE is the concatenation of all its
\* tokens.
PlainTextEndsDone ==
    \A h \in Lines :
        InInvocation(h) /\ ~HasFencedBlock(text[h]) =>
            /\ calls[h] = 0
            /\ pc[h] # "await_tool"
            /\ pc[h] = "stream" =>
                  /\ fullContent[h] \o stream[h] = text[h]
                  /\ stream[h] = <<>> => ENABLED StreamEnd(h)
            /\ pc[h] = "done" => returned[h] = text[h]

\* C6, witness: an invocation whose text holds fence characters but no
\* fenced block has ended.
PlainTextDoneReached ==
    \E h \in Lines :
        /\ pc[h] = "done"
        /\ ~HasFencedBlock(text[h])
        /\ Includes(text[h], OpenFenceNoNl)
        /\ returned[h] = text[h]

\* C7: an invocation whose text holds one fenced block, a tool-call payload,
\* calls the tool exactly once however the text is cut into tokens: never
\* more than once, once as soon as the block is complete in the accumulator,
\* and with the name and the arguments of the block.
OneDispatchPerBlock ==
    \A h \in Lines :
        /\ pc[h] \in {"stream", "await_tool"}
        /\ Cardinality(Blocks(text[h])) = 1
        /\ \A i \in Blocks(text[h]) : IsToolCallPayload(BlockAt(text[h], i))
        => /\ calls[h] <= 1
           /\ HasFencedBlock(fullContent[h]) =>
                /\ calls[h] = 1
                /\ \A i \in Blocks(text[h]) :
                     LET p == JSONParse(BlockAt(text[h], i)).val
                         m == requests[awaiting[h]].message
                     IN  /\ m.name = GetProperty(p, KName)
                         /\ m.arguments = GetProperty(p, KArguments)

\* C8: once the accumulator holds a fenced block of invalid JSON and, after
\* it, a fenced block that is a tool-call payload, the tool has been called.
LaterValidBlockDispatched ==
    \A h \in Lines :
        /\ InInvocation(h)
        /\ \E i, j \in Blocks(fullContent[h]) :
              /\ i < j
              /\ ~JSONParse(BlockAt(fullContent[h], i)).ok
              /\ IsToolCallPayload(BlockAt(fullContent[h], j))
        => calls[h] >= 1

\* The accumulator holds a fenced block of JSON that lacks a field, and no
\* fenced block that has both fields.
OnlyIncidentalBlocks(s) ==
    /\ \E i \in Blocks(s) : LacksAField(BlockAt(s, i))
    /\ \A i \in Blocks(s) : ~HasBothFields(BlockAt(s, i))

\* C9: while the fenced blocks of the accumulator are JSON that lacks the
\* name or the arguments field, no tool has been called and none is awaited,
\* the tokens keep being appended to the accumulator, the end of the stream
\* ends the invocation, and what it returns in DONE is the whole text.
IncidentalBlockIsText ==
    \A h \in Lines :
        InInvocation(h) /\ OnlyIncidentalBlocks(fullContent[h]) =>
            /\ calls[h] = 0
            /\ pc[h] # "await_tool"
            /\ pc[h] = "stream" =>
                  /\ fullContent[h] \o stream[h] = text[h]
                  /\ stream[h] = <<>> => ENABLED StreamEnd(h)
            /\ pc[h] = "done" => returned[h] = text[h]

\* C9, witness: an invocation has ended whose text holds a JSON block
\* without the arguments field, and text after that block.
IncidentalBlockDoneReached ==
    \E h \in Lines :
        /\ pc[h] = "done"
        /\ OnlyIncidentalBlocks(returned[h])
        /\ \E i \in Blocks(returned[h]) :
              /\ HasMember(JSONParse(BlockAt(returned[h], i)).val, KName)
              /\ i + Len(OpenFence) + Len(BlockAt(returned[h], i))
                   + Len(CloseFence) <= Len(returned[h])

\* C10: once an invocation has called a tool, it appends no further token
\* to its accumulator.
NoTokenAfterDispatch ==
    [][\A h \in Lines :
          calls[h] > 0 /\ inv'[h] = inv[h] => fullContent'[h] = fullContent[h]]_vars

(***************************************************************************)
(* The tool round trip and the chat loop (claims C11 to C20).              *)
(***************************************************************************)
\* The texts of a reply's content items with a line break between each two.
RECURSIVE JoinedByNewlines(_)
JoinedByNewlines(items) ==
    IF items = <<>> THEN <<>>
    ELSE IF Len(items) = 1 THEN items[1]
    ELSE JoinedByNewlines(SubSeq(items, 1, Len(items) - 1))
            \o <<"\n">> \o items[Len(items)]

\* "Tool <name> output:\n<texts>" for the string name of a request.
ExpectedOutputText(name, items) ==
    <<"T", "o", "o", "l", " ">> \o SubSeq(name.s, 2, Len(name.s) - 1)
        \o <<" ", "o", "u", "t", "p", "u", "t", ":", "\n">>
        \o JoinedByNewlines(items)

\* The awaited tool call of input line h was settled by a reply of the peer
\* that carries a tool result with the given isError.
RepliedWith(h, isError) ==
    /\ pc[h] = "await_tool"
    /\ requests[awaiting[h]].state = "resolved"
    /\ requests[awaiting[h]].by.result.kind = "tool"
    /\ requests[awaiting[h]].by.result.isError = isError

\* C11: when the dispatched tool call is answered with isError false, the
\* step that takes the answer appends exactly one turn to the history, of
\* role user and content "Tool <name> output:\n" followed by the texts of
\* the reply's content items joined by line breaks.
SuccessReplyBecomesOutputTurn ==
    [][\A h \in Lines :
          RepliedWith(h, FALSE) /\ pc'[h] # pc[h] =>
              chatHistory' =
                  Append(chatHistory,
                         Turn("user",
                              ExpectedOutputText(
                                  requests[awaiting[h]].message.name,
                                  requests[awaiting[h]].by.result.content)))]_vars

\* C11, witness: the history holds the turn "Tool x output:\nok" and a turn
\* made of a reply with two content items.
OutputTurnReached ==
    /\ \E i \in 1..Len(chatHistory) :
          chatHistory[i] =
              Turn("user", <<"T", "o", "o", "l", " ", "x", " ", "o", "u", "t",
                             "p", "u", "t", ":", "\n", "o", "k">>)
    /\ \E i \in 1..Len(chatHistory) :
          /\ chatHistory[i].role = "user"
          /\ Len(chatHistory[i].content) > 4
          /\ SubSeq(chatHistory[i].content, Len(chatHistory[i].content) - 3,
                    Len(chatHistory[i].content)) = <<"o", "k", "\n", "b">>

\* C12: when the awaited tool call was answered with a protocol-level error,
\* the step that takes the rejection appends a user turn (the tool-error
\* turn) to the history and goes on to a fresh model invocation.
ProtocolErrorBecomesErrorTurn ==
    [][\A h \in Lines :
          /\ pc[h] = "await_tool"
          /\ requests[awaiting[h]].state = "rejected"
          /\ requests[awaiting[h]].error = "remote"
          /\ pc'[h] # pc[h]
          => /\ Len(chatHistory') = Len(chatHistory) + 1
             /\ chatHistory'[Len(chatHistory')].role = "user"
             /\ pc'[h] = "chat"]_vars

\* The input lines whose handler is in progress.
InProgress == {h \in Lines : pc[h] \in {"chat", "stream", "await_tool"}}

\* C13: at no time are two line handlers in progress.
OneLineAtATime == Cardinality(InProgress) <= 1

\* The parameters a tool declares, in order.
Declared(tool) ==
    LET properties == GetProperty(GetProperty(tool, KInputSchema), KProperties)
    IN  IF properties = Undefined THEN <<>> ELSE properties.m

\* The required list a tool declares, the empty list when it declares none.
DeclaredRequired(tool) ==
    LET required == GetProperty(GetProperty(tool, KInputSchema), KRequired)
    IN  IF required = Undefined THEN Array(<<>>) ELSE required

\* A description that is there and is not the empty string.
NonEmpty(description) ==
    description.t = "str" /\ StringChars(description) # <<>>

\* schema is the function schema of tool, but for its parameters'
\* descriptions: name and description verbatim, the declared parameters in
\* order with their types and no field but type and description, and the
\* required list.
SchemaOf(schema, tool) ==
    LET fn         == GetProperty(schema, KFunction)
        parameters == GetProperty(fn, KParameters)
        properties == GetProperty(parameters, KProperties)
    IN  /\ GetProperty(schema, KType) = Str(KFunction)
        /\ GetProperty(fn, KName) = GetProperty(tool, KName)
        /\ GetProperty(fn, KDescription) = GetProperty(tool, KDescription)
        /\ GetProperty(parameters, KType) = Str(<<"o", "b", "j", "e", "c", "t">>)
        /\ GetProperty(parameters, KRequired) = DeclaredRequired(tool)
        /\ properties.t = "obj"
        /\ Len(properties.m) = Len(Declared(tool))
        /\ \A i \in 1..Len(properties.m) :
              /\ properties.m[i].k = Declared(tool)[i].k
              /\ GetProperty(properties.m[i].v, KType)
                    = GetProperty(Declared(tool)[i].v, KType)
              /\ \A n \in 1..Len(properties.m[i].v.m) :
                    properties.m[i].v.m[n].k \in {KType, KDescription}

\* The description of the i-th parameter of a tool, or of its schema.
DescriptionOf(properties, i) == GetProperty(properties[i].v, KDescription)

SchemaProperties(schema) ==
    GetProperty(GetProperty(GetProperty(schema, KFunction), KParameters),
                KProperties).m

\* C14 as stated: one function schema per tool, in order, and every declared
\* parameter keeps its type and its description, whatever the description.
AdaptedKeepsDescriptions ==
    tools.set =>
        /\ Len(tools.value) = Len(list)
        /\ \A i \in 1..Len(list) :
              /\ SchemaOf(tools.value[i], list[i])
              /\ \A n \in 1..Len(Declared(list[i])) :
                    DescriptionOf(SchemaProperties(tools.value[i]), n)
                        = DescriptionOf(Declared(list[i]), n)

\* C14, amended: one function schema per tool, in order, with name and
\* description verbatim, the required list verbatim or empty, and every
\* declared parameter reduced to its type and its description, where a
\* description that is absent or the empty string comes out undefined.
AdaptedKeepsNonEmptyDescriptions ==
    tools.set =>
        /\ Len(tools.value) = Len(list)
        /\ \A i \in 1..Len(list) :
              /\ SchemaOf(tools.value[i], list[i])
              /\ \A n \in 1..Len(Declared(list[i])) :
                    DescriptionOf(SchemaProperties(tools.value[i]), n)
                        = IF NonEmpty(DescriptionOf(Declared(list[i]), n))
                          THEN DescriptionOf(Declared(list[i]), n)
                          ELSE Undefined

\* C14, witness: a list of two tools has been adapted, one of them with a
\* parameter that has an enum and one with no required list.
AdaptedTwoTools ==
    /\ tools.set
    /\ Len(list) = 2
    /\ Len(tools.value) = 2
    /\ \E i \in 1..2 : \E n \in 1..Len(Declared(list[i])) :
          GetProperty(Declared(list[i])[n].v, KEnum) # Undefined
    /\ \E i \in 1..2 :
          GetProperty(GetProperty(list[i], KInputSchema), KRequired) = Undefined

\* A fatal startup error has happened: the child process could not be
\* spawned, the transport failed to start, or the tools/list request
\* failed.
StartupError ==
    \/ process = "spawn_failed"
    \/ transport = "failed"
    \/ /\ main = "listing"
       /\ requests[1].state = "rejected"

\* C15: a fatal startup error leads to the session being over with the
\* child process stopped, and no input line is ever processed in a session
\* that had one.
StartupErrorStopsSession ==
    /\ StartupError ~> (main = "failed" /\ killSent)
    /\ [](main = "failed" => \A h \in Lines : pc[h] = "unused")

\* "Tool <name> error: <text>" for the string name of a request and the
\* first content item of the reply.
ExpectedErrorText(name, items) ==
    <<"T", "o", "o", "l", " ">> \o SubSeq(name.s, 2, Len(name.s) - 1)
        \o <<" ", "e", "r", "r", "o", "r", ":", " ">> \o items[1]

\* C16: the step that takes the reply to a tool call, whether its isError
\* is false or true, appends exactly one turn to the history, of role user
\* and holding the tool's output or "Tool <name> error: " and the first
\* content text, and calls the model again with the history that holds
\* that turn; the invocation that then starts has an empty accumulator.
ReplyBecomesTurnAndRestarts ==
    [][\A h \in Lines :
          /\ \A isError \in BOOLEAN :
                RepliedWith(h, isError) /\ pc'[h] # pc[h] =>
                    LET name  == requests[awaiting[h]].message.name
                        items == requests[awaiting[h]].by.result.content
                    IN  /\ chatHistory' =
                              Append(chatHistory,
                                     Turn("user",
                                          IF isError
                                          THEN ExpectedErrorText(name, items)
                                          ELSE ExpectedOutputText(name, items)))
                        /\ pc'[h] = "chat"
                        /\ messages'[h] = chatHistory'
          /\ pc[h] = "chat" /\ pc'[h] # pc[h] =>
                /\ pc'[h] = "stream"
                /\ inv'[h] = inv[h] + 1
                /\ fullContent'[h] = <<>>
                /\ calls'[h] = 0]_vars

\* C16, witness: after a reply with isError true, the history holds the
\* turn "Tool x error: no" and the invocation that followed is streaming
\* with that turn in the history it was given.
ErrorTurnRestarted ==
    \E h \in Lines :
        /\ pc[h] = "stream"
        /\ inv[h] = 2
        /\ \E i \in 1..Len(messages[h]) :
              messages[h][i] =
                  Turn("user", <<"T", "o", "o", "l", " ", "x", " ", "e", "r",
                                 "r", "o", "r", ":", " ", "n", "o">>)

\* C17: within one model invocation callTool is sent at most once.
AtMostOneDispatch == \A h \in Lines : calls[h] <= 1

\* C18: the processing of an input ends only with an invocation whose
\* stream held no qualifying block: an invocation whose text holds a fenced
\* tool-call payload does not reach DONE.
DoneOnlyWithoutQualifyingBlock ==
    \A h \in Lines :
        pc[h] = "done" =>
            \A i \in Blocks(text[h]) : ~IsToolCallPayload(BlockAt(text[h], i))

\* The tools/call requests that were answered with a tool result.
ToolReplies ==
    {r \in Sent : /\ requests[r].message.method = "tools/call"
                  /\ requests[r].state = "resolved"
                  /\ requests[r].value.kind = "tool"}

\* C19: when the one input line is done, the history is the user turn with
\* the input text, then one user-role "Tool ..." turn for each tool call
\* that was answered, then the assistant turn with the whole text of the
\* last invocation exactly when that text is not blank; no text of an
\* earlier invocation is in it.
HistoryOfOneInput ==
    pc[1] = "done" =>
        LET k == Cardinality(ToolReplies)
            n == Len(chatHistory)
        IN  /\ n = 1 + k + (IF TrimIsEmpty(text[1]) THEN 0 ELSE 1)
            /\ chatHistory[1].role = "user"
            /\ chatHistory[1].content \in Inputs
            /\ \A i \in 2..(k + 1) :
                  /\ chatHistory[i].role = "user"
                  /\ SubSeq(chatHistory[i].content, 1, 5)
                        = <<"T", "o", "o", "l", " ">>
            /\ ~TrimIsEmpty(text[1]) =>
                  chatHistory[n] = Turn("assistant", text[1])

\* C19, witness: the input line is done after one answered tool call and a
\* last invocation whose text is blank, so that no assistant turn follows
\* the tool turn.
DoneAfterToolWithBlankText ==
    /\ pc[1] = "done"
    /\ Cardinality(ToolReplies) = 1
    /\ Len(text[1]) > 0
    /\ TrimIsEmpty(text[1])
    /\ Len(chatHistory) = 2

\* C20: once stop() has been called, no further request is sent.
NoRequestAfterStop ==
    [][killSent => Len(requests') = Len(requests)]_vars
====
